---- MODULE Spec2Model ----
(***************************************************************************)
(* compiledtrees/compiled.py: CompiledRegressionPredictor.                 *)
(*                                                                         *)
(* The predictor facade: compilable, _build / __init__, __getstate__,      *)
(* __setstate__ and predict, together with the collaborators it drives     *)
(* (code generator, compiler, native evaluator) and the file system that   *)
(* holds the transient shared objects.                                     *)
(*                                                                         *)
(* Python values are modelled as follows.                                  *)
(*   - a result of compilable is one of "True", "False", "0" (the int 0)   *)
(*     or "AttributeError" (the call raised);                              *)
(*   - an attribute is a record [st, v], st one of "absent" (reading it    *)
(*     raises AttributeError), "None" or "set";                            *)
(*   - float values are integers; a weighted sum is the exact fraction     *)
(*     [num, den] (rounding is not modelled);                              *)
(*   - node ids and feature indexes are 0-based as in the source, stored   *)
(*     at position id + 1 of a sequence.                                   *)
(***************************************************************************)
EXTENDS Integers, Sequences, FiniteSets, TLC

VARIABLES
    py3,     \* the interpreter running the module is Python 3 (else Python 2)
    fs,      \* the file system: path -> content of each existing transient file
    preds,   \* the live predictors: id -> [_n_features, _evaluator, _so_f]
    evals,   \* the live native evaluators: handle -> [path, module]
    pickles, \* the persisted states __getstate__ has returned so far
    op,      \* the last facade operation and what it did
    calls,   \* the predict calls in progress: thread -> call frame
    bufs     \* the numpy arrays allocated by predict: buffer id -> contents

vars == <<py3, fs, preds, evals, pickles, op, calls, bufs>>

-----------------------------------------------------------------------------
(* Bounds of the model *)

MaxMembers == 2     \* an ensemble has at most this many member trees
MaxPreds == 2       \* at most this many predictors are alive at once
MaxPaths == 3       \* the temporary directory offers this many names
MaxCalls == 2       \* at most this many predict calls run concurrently
MaxSamples == 2     \* an input matrix has at most this many rows

Paths == 1..MaxPaths
PredIds == 1..MaxPreds
Handles == 1..MaxPreds
Threads == 1..MaxCalls
BufIds == 1..MaxCalls

Min(S) == CHOOSE m \in S : \A n \in S : m <= n

-----------------------------------------------------------------------------
(* Tree IR and its evaluation by the generated code *)

NoTree ==
    [feature |-> <<>>, threshold |-> <<>>, left |-> <<>>, right |-> <<>>,
     value |-> <<>>, is_leaf |-> <<>>]

\* a tree whose root is a leaf
LeafTree(v) ==
    [feature |-> <<0>>, threshold |-> <<0>>, left |-> <<0>>, right |-> <<0>>,
     value |-> <<v>>, is_leaf |-> <<TRUE>>]

\* a depth-1 tree: node 0 tests x[f] <= t, node 1 and node 2 are leaves
StumpTree(f, t, a, b) ==
    [feature |-> <<f, 0, 0>>, threshold |-> <<t, 0, 0>>, left |-> <<1, 0, 0>>,
     right |-> <<2, 0, 0>>, value |-> <<0, a, b>>,
     is_leaf |-> <<FALSE, TRUE, TRUE>>]

TreeA == LeafTree(3)
TreeB == StumpTree(0, 0, 1, 2)
TreeC == StumpTree(0, 0, 4, 8)

RECURSIVE Walk(_, _, _)
\* the generated code of one tree, at node n, on the feature vector x
Walk(tree, x, n) ==
    IF tree.is_leaf[n + 1]
    THEN tree.value[n + 1]
    ELSE IF x[tree.feature[n + 1] + 1] <= tree.threshold[n + 1]
         THEN Walk(tree, x, tree.left[n + 1])
         ELSE Walk(tree, x, tree.right[n + 1])

RECURSIVE SumTrees(_, _)
SumTrees(trees, x) ==
    IF trees = <<>> THEN 0
    ELSE Walk(Head(trees), x, 0) + SumTrees(Tail(trees), x)

\* cg.code_gen_tree: the source text of a single tree's evaluation function
code_gen_tree(tree) ==
    [fn |-> "tree", trees |-> <<tree>>, weight |-> <<1, 1>>, initial_value |-> 0]

\* cg.code_gen_ensemble: one function per tree and the weighted sum on top
code_gen_ensemble(trees, individual_learner_weight, initial_value) ==
    [fn |-> "ensemble", trees |-> trees, weight |-> individual_learner_weight,
     initial_value |-> initial_value]

\* what the evaluation entry point of the compiled code returns on x
EvalCode(code, x) ==
    IF code.fn = "tree"
    THEN [num |-> Walk(code.trees[1], x, 0), den |-> 1]
    ELSE [num |-> code.initial_value * code.weight[2]
                    + code.weight[1] * SumTrees(code.trees, x),
          den |-> code.weight[2]]

RatEq(a, b) == a.num * b.den = b.num * a.den

-----------------------------------------------------------------------------
(* The models handed to the facade *)

Attr(st, v) == [st |-> st, v |-> v]

TreeModel(nf, no, nc, t) ==
    [kind |-> "DecisionTreeRegressor", n_features |-> nf, n_outputs_ |-> no,
     n_classes_ |-> nc, tree_ |-> t, estimators_ |-> Attr("absent", <<>>),
     learning_rate |-> <<1, 1>>, init_prior |-> 0, n_estimators |-> 1]

\* estimators_ holds the members in the row-major order that .flat yields
BoostModel(nf, est, lr, prior) ==
    [kind |-> "GradientBoostingRegressor", n_features |-> nf, n_outputs_ |-> 1,
     n_classes_ |-> 1, tree_ |-> Attr("absent", NoTree), estimators_ |-> est,
     learning_rate |-> lr, init_prior |-> prior, n_estimators |-> 1]

ForestModel(nf, est, n) ==
    [kind |-> "ForestRegressor", n_features |-> nf, n_outputs_ |-> 1,
     n_classes_ |-> 1, tree_ |-> Attr("absent", NoTree), estimators_ |-> est,
     learning_rate |-> <<1, 1>>, init_prior |-> 0, n_estimators |-> n]

OtherModel ==
    [kind |-> "LinearRegression", n_features |-> 1, n_outputs_ |-> 1,
     n_classes_ |-> 1, tree_ |-> Attr("absent", NoTree),
     estimators_ |-> Attr("absent", <<>>), learning_rate |-> <<1, 1>>,
     init_prior |-> 0, n_estimators |-> 1]

NoModel ==
    [kind |-> "none", n_features |-> 1, n_outputs_ |-> 1, n_classes_ |-> 1,
     tree_ |-> Attr("absent", NoTree), estimators_ |-> Attr("absent", <<>>),
     learning_rate |-> <<1, 1>>, init_prior |-> 0, n_estimators |-> 1]

TreeAttrs ==
    {Attr("absent", NoTree), Attr("None", NoTree), Attr("set", TreeA),
     Attr("set", TreeB)}

TreeModels ==
    {TreeModel(nf, no, nc, t) : nf \in 1..2, no \in 1..2, nc \in 1..2,
                                t \in TreeAttrs}

\* the member trees an ensemble may hold: fitted ones, a two-output one, an
\* unfitted one whose tree_ is None, and one whose tree_ was never set
Members ==
    {TreeModel(1, 1, 1, Attr("set", TreeA)), TreeModel(1, 1, 1, Attr("set", TreeB)),
     TreeModel(1, 2, 1, Attr("set", TreeC)), TreeModel(1, 1, 1, Attr("None", NoTree)),
     TreeModel(1, 1, 1, Attr("absent", NoTree))}

SeqsUpTo(S, n) == UNION {[1..k -> S] : k \in 0..n}

EstimatorAttrs ==
    {Attr("absent", <<>>)} \cup {Attr("set", s) : s \in SeqsUpTo(Members, MaxMembers)}

BoostModels ==
    {BoostModel(nf, est, lr, prior) :
        nf \in 1..2, est \in EstimatorAttrs, lr \in {<<1, 1>>, <<1, 2>>},
        prior \in {0, 5}}

ForestModels ==
    {ForestModel(nf, est, n) :
        nf \in 1..2, est \in EstimatorAttrs, n \in 1..(MaxMembers + 1)}

Models == TreeModels \cup BoostModels \cup ForestModels \cup {OtherModel}

-----------------------------------------------------------------------------
(* compilable *)

RECURSIVE compilable(_), PyAll(_)

\* a variant of Falsy that takes only the boolean False for false
FalsyIsFalse(r) == r = "False"

\* `not r` of a value compilable returned
Falsy(r) == r \in {"False", "0"}

\* a variant of PyAll that looks at the first member only
PyAllFirst(members) ==
    IF members = <<>> THEN "True"
    ELSE LET r == compilable(Head(members)) IN
         IF r = "AttributeError" THEN r
         ELSE IF Falsy(r) THEN "False"
         ELSE "True"

\* all(cls.compilable(e) for e in ...): stops at the first falsy member, and
\* an exception raised by a member's check propagates
PyAll(members) ==
    IF members = <<>> THEN "True"
    ELSE LET r == compilable(Head(members)) IN
         IF r = "AttributeError" THEN r
         ELSE IF Falsy(r) THEN "False"
         ELSE PyAll(Tail(members))

\* A.size and all(...): the int 0 when the array is empty
SizeAndAll(est) ==
    IF est.st = "absent" THEN "AttributeError"
    ELSE IF Len(est.v) = 0 THEN "0"
    ELSE PyAll(est.v)

\* n_outputs_ == 1 and n_classes_ == 1 and tree_ is not None
CompilableTree(clf) ==
    IF clf.n_outputs_ # 1 THEN "False"
    ELSE IF clf.n_classes_ # 1 THEN "False"
    ELSE IF clf.tree_.st = "absent" THEN "AttributeError"
    ELSE IF clf.tree_.st = "None" THEN "False"
    ELSE "True"

compilable(clf) ==
    IF clf.kind = "DecisionTreeRegressor" THEN CompilableTree(clf)
    ELSE IF clf.kind = "GradientBoostingRegressor" THEN SizeAndAll(clf.estimators_)
    ELSE IF clf.kind = "ForestRegressor" THEN SizeAndAll(clf.estimators_)
    ELSE "False"

-----------------------------------------------------------------------------
(* _build *)

NoCode == [fn |-> "none", trees |-> <<>>, weight |-> <<1, 1>>, initial_value |-> 0]

\* [e.tree_ for e in estimators]
TreesOf(members) == [i \in 1..Len(members) |-> members[i].tree_.v]

\* the state of _build after `lines = None; n_features = None`
BuildStart == [n_features |-> Attr("None", 0), lines |-> Attr("None", NoCode), calls |-> <<>>]

BranchTree(clf, s) ==
    IF clf.kind = "DecisionTreeRegressor"
    THEN [n_features |-> Attr("set", clf.n_features),
          lines |-> Attr("set", code_gen_tree(clf.tree_.v)),
          calls |-> Append(s.calls, "code_gen")]
    ELSE s

\* a variant of BranchBoost whose isinstance test never matches
BranchBoostSkipped(clf, s) == s

BranchBoost(clf, s) ==
    IF clf.kind = "GradientBoostingRegressor"
    THEN [n_features |-> Attr("set", clf.n_features),
          lines |-> Attr("set", code_gen_ensemble(TreesOf(clf.estimators_.v),
                                                  clf.learning_rate, clf.init_prior)),
          calls |-> Append(s.calls, "code_gen")]
    ELSE s

\* a variant of BranchForest that passes the weight 1.0
BranchForestSum(clf, s) ==
    IF clf.kind = "ForestRegressor"
    THEN [n_features |-> Attr("set", clf.n_features),
          lines |-> Attr("set", code_gen_ensemble(TreesOf(clf.estimators_.v),
                                                  <<1, 1>>, 0)),
          calls |-> Append(s.calls, "code_gen")]
    ELSE s

BranchForest(clf, s) ==
    IF clf.kind = "ForestRegressor"
    THEN [n_features |-> Attr("set", clf.n_features),
          lines |-> Attr("set", code_gen_ensemble(TreesOf(clf.estimators_.v),
                                                  <<1, clf.n_estimators>>, 0)),
          calls |-> Append(s.calls, "code_gen")]
    ELSE s

\* the three `if isinstance` blocks, one after the other
Dispatch(clf) == BranchForest(clf, BranchBoost(clf, BranchTree(clf, BuildStart)))

\* the bytes of a shared object: the start of the ELF image (magic, then the
\* first instructions of the text section) and the code that was compiled
ElfImage == <<127, 69, 76, 70, 85, 72, 137, 229>>

\* cg.compile_code_to_object: the module the native compiler produces
CompileCode(code) == [image |-> ElfImage, code |-> code]

NoModule == [image |-> <<>>, code |-> NoCode]

\* a variant of FreshPaths that may hand out the name of an existing file
AnyPaths(existing) == Paths

\* the names the temporary directory can hand out: those of no existing file
FreshPaths(existing) == Paths \ existing

\* a new Python object: an id no live object holds
NewId(ids, used) == Min(ids \ used)

\* what the compiler and then the loader may do: fail, or succeed
Outcomes == {"CompileError", "LoadError", ""}

\* _build(clf), with the outcome of the compiler and of the loader: what it
\* returned or raised, the collaborators it called, the file it left
_build(clf, outcome, path) ==
    LET ret == compilable(clf)
        d == Dispatch(clf)
        base == [ret |-> ret, err |-> "", calls |-> <<>>, n_features |-> 0,
                 so_f |-> 0, module |-> NoModule, wrote |-> FALSE]
    IN  IF ret = "AttributeError" THEN [base EXCEPT !.err = "AttributeError"]
        ELSE IF Falsy(ret) THEN [base EXCEPT !.err = "ValueError"]
        ELSE IF d.n_features.st = "None" \/ d.lines.st = "None"
             THEN [base EXCEPT !.err = "AssertionError", !.calls = d.calls]
        ELSE IF outcome = "CompileError"
             THEN [base EXCEPT !.err = "CompileError",
                               !.calls = Append(d.calls, "compile")]
        ELSE IF outcome = "LoadError"
             THEN [base EXCEPT !.err = "LoadError",
                               !.calls = d.calls \o <<"compile", "load">>,
                               !.so_f = path, !.wrote = TRUE,
                               !.module = CompileCode(d.lines.v)]
        ELSE [base EXCEPT !.calls = d.calls \o <<"compile", "load">>,
                          !.n_features = d.n_features.v,
                          !.so_f = path, !.wrote = TRUE,
                          !.module = CompileCode(d.lines.v)]

-----------------------------------------------------------------------------
(* The operations of the facade *)

NoState == [n_features |-> 0, so_f |-> [text |-> FALSE, image |-> <<>>, code |-> NoCode]]

NoOp ==
    [name |-> "init", clf |-> NoModel, ret |-> "", err |-> "", calls |-> <<>>,
     pid |-> 0, state |-> NoState]

Busy(p) == \E t \in Threads : calls[t].pc # "idle" /\ calls[t].pid = p

\* CompiledRegressionPredictor(clf)
__init__(clf, cap) ==
    /\ Cardinality(DOMAIN preds) < MaxPreds
    /\ Cardinality(DOMAIN fs) < cap
    /\ \E path \in FreshPaths(DOMAIN fs), outcome \in Outcomes :
         LET run == _build(clf, outcome, path)
             p == NewId(PredIds, DOMAIN preds)
             h == NewId(Handles, DOMAIN evals)
             ok == run.err = ""
         IN  /\ fs' = IF run.wrote THEN (path :> run.module) @@ fs ELSE fs
             /\ evals' = IF ok THEN (h :> [path |-> path, module |-> run.module]) @@ evals
                         ELSE evals
             /\ preds' = IF ok
                         THEN (p :> [_n_features |-> run.n_features, _evaluator |-> h,
                                     _so_f |-> run.so_f]) @@ preds
                         ELSE preds
             /\ op' = [name |-> "build", clf |-> clf, ret |-> run.ret, err |-> run.err,
                       calls |-> run.calls, pid |-> IF ok THEN p ELSE 0,
                       state |-> NoState]
    /\ UNCHANGED <<py3, pickles, calls, bufs>>

-----------------------------------------------------------------------------
(* __getstate__ and __setstate__ *)

RECURSIVE Utf8Valid(_)
\* whether bytes b decode as UTF-8: a lead byte and its continuation bytes
Utf8Valid(b) ==
    IF b = <<>> THEN TRUE
    ELSE LET n == IF b[1] < 128 THEN 1
                  ELSE IF b[1] \in 194..223 THEN 2
                  ELSE IF b[1] \in 224..239 THEN 3
                  ELSE IF b[1] \in 240..244 THEN 4
                  ELSE 0
         IN  /\ n > 0
             /\ Len(b) >= n
             /\ \A i \in 2..n : b[i] \in 128..191
             /\ Utf8Valid(SubSeq(b, n + 1, Len(b)))

\* open(path).read(): the file is opened in text mode. Python 2 returns the
\* bytes as they are; Python 3 decodes them and returns text, or raises
ReadText(content, isPy3) ==
    IF ~isPy3
    THEN [err |-> "", v |-> [text |-> FALSE, image |-> content.image, code |-> content.code]]
    ELSE IF Utf8Valid(content.image)
    THEN [err |-> "", v |-> [text |-> TRUE, image |-> content.image, code |-> content.code]]
    ELSE [err |-> "UnicodeDecodeError", v |-> NoState.so_f]

\* tf.write(data) on a file opened in binary mode accepts bytes only
WriteBinary(data) ==
    IF data.text THEN [err |-> "TypeError", v |-> NoModule]
    ELSE [err |-> "", v |-> [image |-> data.image, code |-> data.code]]

\* pickling predictor p
__getstate__(p) ==
    /\ p \in DOMAIN preds
    /\ LET r == ReadText(fs[preds[p]._so_f], py3)
           state == [n_features |-> preds[p]._n_features, so_f |-> r.v]
       IN  /\ pickles' = IF r.err = "" THEN pickles \cup {state} ELSE pickles
           /\ op' = [name |-> "persist", clf |-> NoModel, ret |-> "", err |-> r.err,
                     calls |-> <<>>, pid |-> p,
                     state |-> IF r.err = "" THEN state ELSE NoState]
    /\ UNCHANGED <<py3, fs, preds, evals, calls, bufs>>

\* unpickling a predictor from a persisted state
__setstate__(state, cap) ==
    /\ state \in pickles
    /\ Cardinality(DOMAIN preds) < MaxPreds
    /\ Cardinality(DOMAIN fs) < cap
    /\ \E path \in FreshPaths(DOMAIN fs), ldOk \in BOOLEAN :
         LET w == WriteBinary(state.so_f)
             p == NewId(PredIds, DOMAIN preds)
             h == NewId(Handles, DOMAIN evals)
             err == IF w.err # "" THEN w.err ELSE IF ldOk THEN "" ELSE "LoadError"
         IN  \* NamedTemporaryFile(delete=False) has created the file by the
             \* time write is called, and nothing removes it afterwards
             /\ fs' = (path :> w.v) @@ fs
             /\ evals' = IF err = "" THEN (h :> [path |-> path, module |-> w.v]) @@ evals
                         ELSE evals
             /\ preds' = IF err = ""
                         THEN (p :> [_n_features |-> state.n_features, _evaluator |-> h,
                                     _so_f |-> path]) @@ preds
                         ELSE preds
             /\ op' = [name |-> "restore", clf |-> NoModel, ret |-> "", err |-> err,
                       calls |-> IF w.err = "" THEN <<"load">> ELSE <<>>,
                       pid |-> IF err = "" THEN p ELSE 0, state |-> state]
    /\ UNCHANGED <<py3, pickles, calls, bufs>>

Without(f, k) == [x \in DOMAIN f \ {k} |-> f[x]]

\* the last reference to predictor p goes away: the predictor and its
\* evaluator are destroyed, and the evaluator releases its module
Destroy(p) ==
    /\ p \in DOMAIN preds
    /\ ~Busy(p)
    /\ LET h == preds[p]._evaluator IN
         /\ evals' = Without(evals, h)
         /\ fs' = Without(fs, evals[h].path)
    /\ preds' = Without(preds, p)
    /\ op' = [NoOp EXCEPT !.name = "destroy", !.pid = p]
    /\ UNCHANGED <<py3, pickles, calls, bufs>>

-----------------------------------------------------------------------------
(* predict *)

DTYPE == "float32"

\* the rows of an n x f matrix: every cell of row i holds i modulo 2
RowData(n, f) == [i \in 1..n |-> [j \in 1..f |-> i % 2]]

\* the 2-D float32 matrices handed to predict: every small shape
Matrices ==
    {[dtype |-> "float32", shape |-> <<n, f>>, data |-> RowData(n, f)] :
        n \in 0..MaxSamples, f \in 1..2}

\* the other arrays handed to predict: of 0, 1 and 3 dimensions, and of
\* 64-bit floats
OtherArrays ==
    {[dtype |-> "float32", shape |-> s, data |-> <<>>] :
        s \in {<<>>, <<1>>, <<2>>, <<1, 1, 1>>}}
    \cup {[dtype |-> "float64", shape |-> <<1, 1>>, data |-> RowData(1, 1)],
          [dtype |-> "float64", shape |-> <<1>>, data |-> <<>>]}

XInputs == Matrices \cup OtherArrays

\* a variant of Validate without the feature-count check
ValidateNoCount(self, X) ==
    IF X.dtype # DTYPE THEN "ValueError"
    ELSE IF Len(X.shape) # 2 THEN "ValueError"
    ELSE ""

\* the checks of predict, in order: what it raises, "" when X passes
Validate(self, X) ==
    IF X.dtype # DTYPE THEN "ValueError"
    ELSE IF Len(X.shape) # 2 THEN "ValueError"
    ELSE IF self._n_features # X.shape[2] THEN "ValueError"
    ELSE ""

NoPred == [_n_features |-> 0, _evaluator |-> 0, _so_f |-> 0]

IdleCall ==
    [pc |-> "idle", pid |-> 0, self |-> NoPred, X |-> [dtype |-> DTYPE, shape |-> <<>>, data |-> <<>>],
     err |-> "", native |-> FALSE, buf |-> 0, row |-> 0]

\* what np.empty leaves in a cell of a new array: a value that is not
\* defined, and so differs from every number the evaluator can store
Uninit == [num |-> 0, den |-> 0]

\* a variant of NewBuffer that reuses one array kept on the predictor
SharedBuffer(used) == 1

\* result = np.empty(n_samples): an array no other call holds
NewBuffer(used) == NewId(BufIds, used)

\* thread t calls p.predict(X): the checks, then the allocation of the result
predict(t, p, X) ==
    /\ calls[t].pc = "idle"
    /\ p \in DOMAIN preds
    /\ LET err == Validate(preds[p], X)
           frame == [IdleCall EXCEPT !.pid = p, !.self = preds[p], !.X = X]
       IN  IF err # ""
           THEN /\ calls' = [calls EXCEPT ![t] = [frame EXCEPT !.pc = "raised", !.err = err]]
                /\ bufs' = bufs
           ELSE LET b == NewBuffer(DOMAIN bufs) IN
                    /\ bufs' = (b :> [i \in 1..X.shape[1] |-> Uninit]) @@ bufs
                    /\ calls' = [calls EXCEPT ![t] =
                                   [frame EXCEPT !.pc = "native", !.native = TRUE,
                                                 !.buf = b, !.row = 1]]
    /\ UNCHANGED <<py3, fs, preds, evals, pickles, op>>

\* the native evaluator evaluates one row and stores it in the result
NativeRow(t) ==
    /\ calls[t].pc = "native"
    /\ calls[t].row <= calls[t].X.shape[1]
    /\ LET c == calls[t]
           code == evals[c.self._evaluator].module.code
           y == EvalCode(code, c.X.data[c.row])
       IN  bufs' = [bufs EXCEPT ![c.buf] =
                      [i \in DOMAIN bufs[c.buf] |-> IF i = c.row THEN y ELSE bufs[c.buf][i]]]
    /\ calls' = [calls EXCEPT ![t].row = @ + 1]
    /\ UNCHANGED <<py3, fs, preds, evals, pickles, op>>

\* the native evaluator has done every row: predict returns the result array
NativeReturn(t) ==
    /\ calls[t].pc = "native"
    /\ calls[t].row > calls[t].X.shape[1]
    /\ calls' = [calls EXCEPT ![t].pc = "returned"]
    /\ UNCHANGED <<py3, fs, preds, evals, pickles, op, bufs>>

\* the caller is done with the call's result or exception
PredictExit(t) ==
    /\ calls[t].pc \in {"returned", "raised"}
    /\ bufs' = IF calls[t].pc = "returned" THEN Without(bufs, calls[t].buf) ELSE bufs
    /\ calls' = [calls EXCEPT ![t] = IdleCall]
    /\ UNCHANGED <<py3, fs, preds, evals, pickles, op>>

-----------------------------------------------------------------------------
(* Specifications *)

Init ==
    /\ py3 \in BOOLEAN
    /\ fs = <<>>
    /\ preds = <<>>
    /\ evals = <<>>
    /\ pickles = {}
    /\ op = NoOp
    /\ calls = [t \in Threads |-> IdleCall]
    /\ bufs = <<>>

\* the models the life-cycle and predict specifications build from
LifeModels ==
    {TreeModel(1, 1, 1, Attr("set", TreeB)),
     ForestModel(2, Attr("set", <<TreeModel(1, 1, 1, Attr("set", TreeA)),
                                  TreeModel(1, 1, 1, Attr("set", TreeB))>>), 2),
     TreeModel(1, 2, 1, Attr("set", TreeB))}

\* building from every model, in a process that has built nothing else and
\* stops at the first exception
NextBuild ==
    \/ \E clf \in Models : op.name \in {"init", "destroy"} /\ __init__(clf, 1)
    \/ \E p \in PredIds : Destroy(p)

SpecBuild == Init /\ [][NextBuild]_vars

\* the life cycle of predictors: build, persist, restore, destroy
NextLife ==
    \/ \E clf \in LifeModels : __init__(clf, MaxPaths)
    \/ \E p \in PredIds : __getstate__(p)
    \/ \E state \in pickles : __setstate__(state, MaxPaths)
    \/ \E p \in PredIds : Destroy(p)

SpecLife == Init /\ [][NextLife]_vars

\* concurrent predict calls on live predictors
NextPredict ==
    \/ \E clf \in LifeModels : __init__(clf, 1)
    \/ \E p \in PredIds : Destroy(p)
    \/ \E t \in Threads, p \in PredIds, X \in XInputs : predict(t, p, X)
    \/ \E t \in Threads : NativeRow(t)
    \/ \E t \in Threads : NativeReturn(t)
    \/ \E t \in Threads : PredictExit(t)

SpecPredict == Init /\ [][NextPredict]_vars

-----------------------------------------------------------------------------
(* Properties *)

Ensembles == {"GradientBoostingRegressor", "ForestRegressor"}

Built == op.name = "build"

\* C1: whenever compilable(model) is false (the boolean False or the int 0),
\* build raises ValueError, has called neither the code generator nor the
\* compiler nor the loader, and has made neither a predictor nor a file.
C1_RejectedBeforeCodeGen ==
    Built /\ compilable(op.clf) \in {"False", "0"}
        => /\ op.err = "ValueError"
           /\ op.calls = <<>>
           /\ op.pid = 0
           /\ fs = <<>>

C1_Witness ==
    /\ Built
    /\ op.clf.kind = "DecisionTreeRegressor"
    /\ op.clf.n_outputs_ = 2
    /\ op.err = "ValueError"

\* the shapes C2 lists as unsupported
Unsupported(clf) ==
    \/ clf.kind \notin Ensembles \cup {"DecisionTreeRegressor"}
    \/ /\ clf.kind = "DecisionTreeRegressor"
       /\ \/ clf.n_outputs_ # 1
          \/ clf.n_classes_ # 1
          \/ clf.tree_.st # "set"
    \/ /\ clf.kind \in Ensembles
       /\ \/ clf.estimators_.st = "absent"
          \/ Len(clf.estimators_.v) = 0

\* C2: for every unsupported shape (unknown type, tree with several outputs
\* or classes, unfitted tree or ensemble, ensemble without members)
\* compilable returns the boolean False: it neither raises nor returns a
\* value that is not a boolean.
C2_ReturnsBooleanFalse ==
    Built /\ Unsupported(op.clf) => op.ret = "False"

\* a member tree that is compilable: one output, one class, a fitted tree
MemberOk(m) == m.n_outputs_ = 1 /\ m.n_classes_ = 1 /\ m.tree_.st = "set"

\* C3: for an ensemble, compilable is true exactly when the ensemble has at
\* least one member and every member is compilable.
C3_EnsembleIffAllMembers ==
    Built /\ op.clf.kind \in Ensembles
        => (op.ret = "True"
              <=> /\ op.clf.estimators_.st = "set"
                  /\ Len(op.clf.estimators_.v) >= 1
                  /\ \A i \in 1..Len(op.clf.estimators_.v) :
                        MemberOk(op.clf.estimators_.v[i]))

C3_Witness ==
    /\ Built
    /\ op.clf.kind = "ForestRegressor"
    /\ op.clf.estimators_.st = "set"
    /\ Len(op.clf.estimators_.v) = 2
    /\ MemberOk(op.clf.estimators_.v[1])
    /\ ~MemberOk(op.clf.estimators_.v[2])
    /\ op.ret = "False"

RECURSIVE SumMembers(_, _)
\* the sum over the members of walking each member's tree on x
SumMembers(members, x) ==
    IF members = <<>> THEN 0
    ELSE Walk(Head(members).tree_.v, x, 0) + SumMembers(Tail(members), x)

FeatureVectors(nf) == [1..nf -> {0, 1}]

\* the code loaded into the evaluator of the predictor the last build made
BuiltCode == evals[preds[op.pid]._evaluator].module.code

BuiltEnsemble == Built /\ op.err = "" /\ op.clf.kind \in Ensembles

\* the evaluator of the last build computes init + (w[1] / w[2]) * the sum of
\* the members' results, and was generated from every member tree once
EnsembleOutputIs(init, w) ==
    LET m == op.clf.estimators_.v IN
      /\ Len(BuiltCode.trees) = Len(m)
      /\ \A i \in 1..Len(m) : BuiltCode.trees[i] = m[i].tree_.v
      /\ \A x \in FeatureVectors(op.clf.n_features) :
            RatEq(EvalCode(BuiltCode, x),
                  [num |-> init * w[2] + w[1] * SumMembers(m, x), den |-> w[2]])

\* C8 as stated: the weight of a forest is 1 / (number of member trees), so
\* that a forest's output is the mean of its members' outputs.
C8_ForestIsMean ==
    BuiltEnsemble
        => IF op.clf.kind = "GradientBoostingRegressor"
           THEN EnsembleOutputIs(op.clf.init_prior, op.clf.learning_rate)
           ELSE EnsembleOutputIs(0, <<1, Len(op.clf.estimators_.v)>>)

\* C8 amended: the weight of a forest is 1 / n_estimators, the model's
\* parameter; for a boosted ensemble it is the learning rate and the initial
\* value the prior. Every member tree is passed to the generator once.
C8_WeightedSum ==
    BuiltEnsemble
        => IF op.clf.kind = "GradientBoostingRegressor"
           THEN EnsembleOutputIs(op.clf.init_prior, op.clf.learning_rate)
           ELSE EnsembleOutputIs(0, <<1, op.clf.n_estimators>>)

C8_Witness ==
    /\ BuiltEnsemble
    /\ op.clf.kind = "ForestRegressor"
    /\ Len(op.clf.estimators_.v) = 2
    /\ op.clf.n_estimators = 2
    /\ \E x \in FeatureVectors(op.clf.n_features) : EvalCode(BuiltCode, x).num = 5

Pipeline == <<"code_gen", "compile", "load">>

\* C10: for a model compilable accepts, exactly one branch of _build runs:
\* the code generator is called once and no assertion fails. The compiler
\* and the loader are then called once each, in that order and never again:
\* the calls of a build that returns are code generation, compilation, load,
\* and a build the compiler or the loader fails stops at that call.
C10_OneBranchOnePass ==
    Built /\ op.ret = "True"
        => /\ op.err \in {"", "CompileError", "LoadError"}
           /\ Len(SelectSeq(op.calls, LAMBDA c : c = "code_gen")) = 1
           /\ op.err = "" => op.calls = Pipeline /\ op.pid \in DOMAIN preds
           /\ op.err = "LoadError" => op.calls = Pipeline
           /\ op.err = "CompileError" => op.calls = SubSeq(Pipeline, 1, 2)

C10_Witness ==
    /\ Built
    /\ op.clf.kind = "GradientBoostingRegressor"
    /\ op.ret = "True"
    /\ op.err = ""
    /\ op.calls = Pipeline

\* the frames of the predict calls that have started
Active == {t \in Threads : calls[t].pc # "idle"}

\* X is no 2-D float32 matrix with the feature count the predictor recorded
BadInput(self, X) ==
    \/ Len(X.shape) # 2
    \/ X.dtype # "float32"
    \/ X.shape[2] # self._n_features

\* C4: predict raises ValueError on every input that is not 2-D, or not of
\* 32-bit floats, or of another feature count than the predictor recorded,
\* and it does so before the native evaluator is called; the native
\* evaluator is called only on inputs that pass the three checks.
C4_RejectsBeforeNative ==
    \A t \in Active :
        LET c == calls[t] IN
          /\ BadInput(preds[c.pid], c.X)
                => c.pc = "raised" /\ c.err = "ValueError" /\ ~c.native
          /\ c.native => ~BadInput(preds[c.pid], c.X)

C4_Witness ==
    \E t \in Active :
        /\ calls[t].pc = "raised"
        /\ calls[t].X.dtype = "float32"
        /\ Len(calls[t].X.shape) = 1
        /\ ~calls[t].native

\* what the call of frame c returns when it runs alone
ResultAlone(c) ==
    [i \in 1..c.X.shape[1] |->
        EvalCode(evals[c.self._evaluator].module.code, c.X.data[i])]

\* C9: a predict call leaves the predictor as it was (feature count,
\* evaluator handle, module path), writes into an array of n_samples cells
\* that no other call holds, and returns what it would return run alone,
\* whatever other predict calls on the predictor run at the same time.
C9_PredictIsPure ==
    \A t \in Active :
        LET c == calls[t] IN
          /\ preds[c.pid] = c.self
          /\ c.self._evaluator \in DOMAIN evals
          /\ c.native
                => /\ c.buf \in DOMAIN bufs
                   /\ Len(bufs[c.buf]) = c.X.shape[1]
                   /\ \A u \in Active \ {t} : calls[u].native => calls[u].buf # c.buf
          /\ c.pc = "returned" => bufs[c.buf] = ResultAlone(c)

C9_Witness ==
    /\ calls[1].pc = "returned"
    /\ calls[2].pc = "native"
    /\ calls[1].pid = calls[2].pid
    /\ calls[1].X.shape[1] = 2
    /\ calls[2].row = 2
    /\ bufs[calls[1].buf][1] # bufs[calls[1].buf][2]

\* C5: persisting a built predictor succeeds, the persisted state holds its
\* feature count and the bytes of its module, and a predictor restored from
\* a state has that feature count and a module of those bytes, in its file
\* and in its evaluator: it accepts, rejects and predicts as the original.
C5_RoundTrip ==
    /\ op.name = "persist"
          => /\ op.err = ""
             /\ op.state.n_features = preds[op.pid]._n_features
             /\ ~op.state.so_f.text
             /\ op.state.so_f.image = fs[preds[op.pid]._so_f].image
             /\ op.state.so_f.code = fs[preds[op.pid]._so_f].code
    /\ op.name = "restore" /\ op.err = ""
          => /\ preds[op.pid]._n_features = op.state.n_features
             /\ fs[preds[op.pid]._so_f].image = op.state.so_f.image
             /\ fs[preds[op.pid]._so_f].code = op.state.so_f.code
             /\ evals[preds[op.pid]._evaluator].module = fs[preds[op.pid]._so_f]

\* C6: restoring calls neither the code generator nor the compiler and takes
\* no model; the restored predictor's module is a new file, its evaluator
\* is resolved from that file, and no two live predictors share a module
\* path or an evaluator.
C6_RestoreIsFresh ==
    /\ op.name = "restore"
          => /\ \A i \in 1..Len(op.calls) : op.calls[i] = "load"
             /\ op.clf = NoModel
    /\ op.name = "restore" /\ op.err = ""
          => /\ op.calls = <<"load">>
             /\ evals[preds[op.pid]._evaluator].path = preds[op.pid]._so_f
             /\ evals[preds[op.pid]._evaluator].module = fs[preds[op.pid]._so_f]
    /\ \A p, q \in DOMAIN preds :
          p # q => /\ preds[p]._so_f # preds[q]._so_f
                   /\ preds[p]._evaluator # preds[q]._evaluator
    /\ \A p \in DOMAIN preds :
          /\ preds[p]._so_f \in DOMAIN fs
          /\ evals[preds[p]._evaluator].module = fs[preds[p]._so_f]

C6_Witness ==
    /\ op.name = "restore"
    /\ op.err = ""
    /\ Cardinality(DOMAIN preds) = 2
    /\ \E p \in DOMAIN preds :
          p # op.pid /\ fs[preds[p]._so_f] = fs[preds[op.pid]._so_f]

\* C7: the file of a live predictor's module exists, and no module file
\* exists that no live predictor owns, after any sequence of build, persist,
\* restore and destroy.
C7_FilesAreOwned ==
    /\ \A p \in DOMAIN preds : preds[p]._so_f \in DOMAIN fs
    /\ \A f \in DOMAIN fs : \E p \in DOMAIN preds : preds[p]._so_f = f

====
